---- MODULE Spec2Model ----
(***************************************************************************)
(* eslint-plugin-purescript-ffi: the two rules of src/index.js,            *)
(* "no-logic-in-ffi" and "no-local-imports", as listeners that a host      *)
(* linter invokes on the nodes of a syntax tree, and the diagnostics they  *)
(* hand to context.report.                                                 *)
(*                                                                         *)
(* The host first imports the module. src/index.js as it stands does not   *)
(* parse: the "*/" inside "src/**/*.js" on line 9 ends the header comment  *)
(* that line 28 was meant to end, what follows is read as code, and the    *)
(* import throws a SyntaxError, so that no rule is exported and no         *)
(* listener is ever obtained. The rules are those of lines 30-223, which   *)
(* the host gets when that text is evaluated without the header comment;   *)
(* both texts are inputs of Load.                                          *)
(***************************************************************************)
EXTENDS Integers, Sequences, FiniteSets, TLC

VARIABLES
    plugin,      \* the module text the host imports and what the import came to
    enabled,     \* the rules the host configuration switched on
    ancestors,   \* types of the nodes from Program down to the traversal position
    visited,     \* the nodes some rule listens to, in the order the host entered them
    cur,         \* index in visited of the node being dispatched, 0 between nodes
    pending,     \* rules whose listener the host still has to invoke on visited[cur]
    calls,       \* the listener invocations so far: rule, node, how the listener ended
    classified,  \* the applications of isLocalImport so far: argument and completion
    reports,     \* the objects handed to context.report, in order
    thrown       \* a listener threw: the exception ends the host's run

vars == <<plugin, enabled, ancestors, visited, cur, pending, calls, classified, reports, thrown>>

-----------------------------------------------------------------------------
(* Bounds of the model.                                                    *)

MaxVisited == 2       \* listened-to nodes per run
MaxDepth == 5         \* nesting depth of the trees of Spec
MaxStubDepth == 8     \* nesting depth of the trees of SpecStub
MaxUnitVisited == 1   \* listened-to nodes per run of SpecUnit
MaxCalls == 4         \* listener invocations per run of SpecAnyOrder
MaxAnyDepth == 3      \* nesting depth of the trees of SpecAnyOrder
MaxAnyVisited == 3    \* listened-to nodes per run of SpecAnyOrder

-----------------------------------------------------------------------------
(* JavaScript values. A string is the sequence of its characters, so that  *)
(* startsWith is computed and not assumed.                                 *)

JSString(cs) == [t |-> "string", chars |-> cs]
JSNumber(n) == [t |-> "number", num |-> n]
JSBoolean(b) == [t |-> "boolean", bool |-> b]
JSBigInt(n) == [t |-> "bigint", big |-> n]
JSNull == [t |-> "null"]
JSUndefined == [t |-> "undefined"]
JSRegExp == [t |-> "object", class |-> "RegExp"]

\* !source (src/index.js:172) is the negation of ToBoolean(source).
ToBoolean(v) ==
    CASE v.t = "string" -> Len(v.chars) > 0
      [] v.t = "number" -> v.num # 0
      [] v.t = "boolean" -> v.bool
      [] v.t = "bigint" -> v.big # 0
      [] v.t = "null" -> FALSE
      [] v.t = "undefined" -> FALSE
      [] OTHER -> TRUE

\* String.prototype.startsWith; only a string has the method.
startsWith(v, prefix) ==
    /\ Len(v.chars) >= Len(prefix)
    /\ SubSeq(v.chars, 1, Len(prefix)) = prefix

Return(b) == [kind |-> "return", value |-> b]
Throw(e) == [kind |-> "throw", error |-> e]

-----------------------------------------------------------------------------
(* The module text and its evaluation. A line is the sequence of its       *)
(* pieces, "*" and "/" each a piece of their own, so that the end of the   *)
(* block comment is found and not assumed.                                 *)

\* The character U+0060, which a string of this notation cannot hold.
Backtick == "U+0060"

\* src/index.js, lines 1-28.
HeaderComment == <<
    <<"/", "*", "*">>,
    <<" ", "*",
      " ESLint plugin to enforce FFI stub-only pattern for PureScript-JavaScript interop.">>,
    <<" ", "*">>,
    <<" ", "*", " FFI files should ONLY contain thin wrappers to external libraries.">>,
    <<" ", "*", " All business logic must be in PureScript.">>,
    <<" ", "*">>,
    <<" ", "*", " FILE TARGETING:">>,
    <<" ", "*", " Rules apply to all files matched by your ESLint config's ", Backtick, "files",
      Backtick, " pattern.">>,
    <<" ", "*", " Typically configured as: files: [\"src", "/", "*", "*", "/", "*", ".js\"]">>,
    <<" ", "*", " The plugin does NOT filter by path - use ESLint config to control scope.">>,
    <<" ", "*">>,
    <<" ", "*", " ALLOWED:">>,
    <<" ", "*", " - Direct library calls: ", Backtick,
      "export const foo = (x) => () => lib.method(x)", Backtick>>,
    <<" ", "*", " - Async wrappers: ", Backtick,
      "export const foo = (x) => async () => lib.method(x)", Backtick>>,
    <<" ", "*", " - Constant exports: ", Backtick, "export const alignLeft = TextAlignment.Left",
      Backtick>>,
    <<" ", "*", " - Simple default values: ", Backtick, "field.getText() || \"\"", Backtick>>,
    <<" ", "*", " - Imports from external npm packages (e.g., \"pdf-lib\", \"@aws-sdk", "/",
      "client-textract\")">>,
    <<" ", "*", " - Imports from Node.js built-ins (e.g., \"fs\", \"path\", \"node:crypto\")">>,
    <<" ", "*">>,
    <<" ", "*", " PROHIBITED:">>,
    <<" ", "*", " - Non-exported helper functions">>,
    <<" ", "*", " - if", "/", "else statements">>,
    <<" ", "*", " - for", "/", "while loops">>,
    <<" ", "*",
      " - Array transformation methods (.map, .filter, .reduce, .findIndex, .find, .some, .every, .flatMap)">>,
    <<" ", "*", " - Ternary operators (conditional expressions)">>,
    <<" ", "*", " - switch statements">>,
    <<" ", "*", " - Imports from local JS files (e.g., \"..", "/", "..", "/", "js", "/",
      "services", "/", "index.js\", \".", "/", "helper.js\")">>,
    <<" ", "*", "/">>
>>

IndexJs == "src/index.js"
IndexJsBody == "src/index.js:30-223"
ModuleTexts == {IndexJs, IndexJsBody}

\* What precedes line 30 in the text.
Source(file) == IF file = IndexJs THEN HeaderComment ELSE <<>>

\* The lines end to end, each followed by its line break.
RECURSIVE Characters(_)
Characters(lines) ==
    IF lines = <<>> THEN <<>>
    ELSE Head(lines) \o <<"\n">> \o Characters(Tail(lines))

\* A block comment ends with the first "*/" after its "/*": the index of the
\* "/" of that "*/"; 0 when the text opens with no comment, past the end when
\* the comment is not closed.
EndOfComment(cs) ==
    IF Len(cs) >= 2 /\ cs[1] = "/" /\ cs[2] = "*"
    THEN LET ends == {i \in 4..Len(cs) : cs[i - 1] = "*" /\ cs[i] = "/"}
         IN IF ends = {} THEN Len(cs) + 1
            ELSE CHOOSE i \in ends : \A j \in ends : i <= j
    ELSE 0

IsBlank(c) == c \in {" ", "\n"}

\* What is read as code between the end of the comment and line 30.
AfterComment(cs) ==
    SelectSeq(SubSeq(cs, EndOfComment(cs) + 1, Len(cs)), LAMBDA c : ~IsBlank(c))

\* Importing the module: the text is parsed whole before anything of it is
\* evaluated. Nothing of the header's prose is a statement (what follows the
\* "*/" of line 9 begins with "*": Unexpected token).
Evaluate(file) ==
    LET cs == Characters(Source(file))
    IN IF EndOfComment(cs) > Len(cs) THEN "SyntaxError"
       ELSE IF AfterComment(cs) # <<>> THEN "SyntaxError"
       ELSE "evaluated"

-----------------------------------------------------------------------------
(* The module-level constants and the rules' identifiers.                  *)

\* Faulty variant of ARRAY_METHODS: an entry dropped.
ARRAY_METHODS_NoFindIndex ==
    <<"map", "filter", "reduce", "find", "some", "every", "flatMap">>

\* Faulty variant of ARRAY_METHODS: forEach added.
ARRAY_METHODS_WithForEach ==
    <<"map", "filter", "reduce", "findIndex", "find", "some", "every", "flatMap",
      "forEach">>

ARRAY_METHODS ==
    <<"map", "filter", "reduce", "findIndex", "find", "some", "every", "flatMap">>

\* Array.prototype.includes on an array of strings: strict equality with an element.
includes(array, x) == \E i \in 1..Len(array) : array[i] = x

NoLogicInFfi == "no-logic-in-ffi"
NoLocalImports == "no-local-imports"
\* export const rules: what the importing host holds, nothing when the import
\* threw.
rules ==
    IF plugin.status = "evaluated" THEN {NoLogicInFfi, NoLocalImports} ELSE {}

\* The keys of the object each create(context) returns: the node types listened to.
listenerKeys(rule) ==
    IF rule = NoLogicInFfi
    THEN {"FunctionDeclaration", "IfStatement", "ForStatement", "ForInStatement",
          "ForOfStatement", "WhileStatement", "DoWhileStatement",
          "ConditionalExpression", "SwitchStatement", "CallExpression"}
    ELSE {"ImportDeclaration", "CallExpression", "ImportExpression"}

listeners(type) == {r \in rules : type \in listenerKeys(r)}

-----------------------------------------------------------------------------
(* What a listener does to the host's state.                               *)

\* The host invokes the listener registered by `rule` under `key` on `node`.
Invoked(rule, key, node) ==
    /\ ~thrown
    /\ node # 0
    /\ cur = node
    /\ rule \in pending
    /\ visited[node].type = key

\* The listener ends: it returned and the host goes on, or it threw and the
\* exception ends the run.
Completes(rule, node, how) ==
    /\ pending' = pending \ {rule}
    /\ cur' = IF pending \ {rule} = {} THEN 0 ELSE cur
    /\ calls' = Append(calls, [rule |-> rule, node |-> node, how |-> how])
    /\ thrown' = (how = "threw")
    /\ UNCHANGED <<plugin, enabled, ancestors, visited>>

\* context.report({ node, messageId })
report(rule, node, messageId) ==
    reports' = Append(reports,
                      [ruleId |-> rule, node |-> node, messageId |-> messageId])

\* context.report({ node, messageId, data })
reportData(rule, node, messageId, data) ==
    reports' = Append(reports,
                      [ruleId |-> rule, node |-> node, messageId |-> messageId,
                       data |-> data])

-----------------------------------------------------------------------------
(* Rule "no-logic-in-ffi".                                                 *)

\* node.id?.name || "anonymous"
helperName(n) ==
    IF n.id = JSNull THEN "anonymous"
    ELSE IF n.id.name = "" THEN "anonymous"
    ELSE n.id.name

\* Faulty variant of FunctionDeclaration: the test for export default left out.
FunctionDeclaration_NamedExportOnly(node) ==
    /\ Invoked(NoLogicInFfi, "FunctionDeclaration", node)
    /\ IF visited[node].parent.type # "ExportNamedDeclaration"
       THEN reportData(NoLogicInFfi, node, "noHelperFunctions",
                       [name |-> helperName(visited[node])])
       ELSE UNCHANGED reports
    /\ Completes(NoLogicInFfi, node, "returned")
    /\ UNCHANGED classified

FunctionDeclaration(node) ==
    /\ Invoked(NoLogicInFfi, "FunctionDeclaration", node)
    /\ LET parent == visited[node].parent
       IN IF /\ parent.type # "ExportNamedDeclaration"
             /\ parent.type # "ExportDefaultDeclaration"
          THEN reportData(NoLogicInFfi, node, "noHelperFunctions",
                          [name |-> helperName(visited[node])])
          ELSE UNCHANGED reports
    /\ Completes(NoLogicInFfi, node, "returned")
    /\ UNCHANGED classified

\* Faulty variant of IfStatement: it reports once and remembers that it did.
IfStatement_Once(node) ==
    /\ Invoked(NoLogicInFfi, "IfStatement", node)
    /\ IF \E k \in 1..Len(reports) : reports[k].messageId = "noIfStatements"
       THEN UNCHANGED reports
       ELSE report(NoLogicInFfi, node, "noIfStatements")
    /\ Completes(NoLogicInFfi, node, "returned")
    /\ UNCHANGED classified

IfStatement(node) ==
    /\ Invoked(NoLogicInFfi, "IfStatement", node)
    /\ report(NoLogicInFfi, node, "noIfStatements")
    /\ Completes(NoLogicInFfi, node, "returned")
    /\ UNCHANGED classified

ForStatement(node) ==
    /\ Invoked(NoLogicInFfi, "ForStatement", node)
    /\ report(NoLogicInFfi, node, "noLoops")
    /\ Completes(NoLogicInFfi, node, "returned")
    /\ UNCHANGED classified

ForInStatement(node) ==
    /\ Invoked(NoLogicInFfi, "ForInStatement", node)
    /\ report(NoLogicInFfi, node, "noLoops")
    /\ Completes(NoLogicInFfi, node, "returned")
    /\ UNCHANGED classified

ForOfStatement(node) ==
    /\ Invoked(NoLogicInFfi, "ForOfStatement", node)
    /\ report(NoLogicInFfi, node, "noLoops")
    /\ Completes(NoLogicInFfi, node, "returned")
    /\ UNCHANGED classified

\* Faulty variant of WhileStatement: the message key of the if listener.
WhileStatement_IfKey(node) ==
    /\ Invoked(NoLogicInFfi, "WhileStatement", node)
    /\ report(NoLogicInFfi, node, "noIfStatements")
    /\ Completes(NoLogicInFfi, node, "returned")
    /\ UNCHANGED classified

WhileStatement(node) ==
    /\ Invoked(NoLogicInFfi, "WhileStatement", node)
    /\ report(NoLogicInFfi, node, "noLoops")
    /\ Completes(NoLogicInFfi, node, "returned")
    /\ UNCHANGED classified

DoWhileStatement(node) ==
    /\ Invoked(NoLogicInFfi, "DoWhileStatement", node)
    /\ report(NoLogicInFfi, node, "noLoops")
    /\ Completes(NoLogicInFfi, node, "returned")
    /\ UNCHANGED classified

ConditionalExpression(node) ==
    /\ Invoked(NoLogicInFfi, "ConditionalExpression", node)
    /\ report(NoLogicInFfi, node, "noTernary")
    /\ Completes(NoLogicInFfi, node, "returned")
    /\ UNCHANGED classified

SwitchStatement(node) ==
    /\ Invoked(NoLogicInFfi, "SwitchStatement", node)
    /\ report(NoLogicInFfi, node, "noSwitch")
    /\ Completes(NoLogicInFfi, node, "returned")
    /\ UNCHANGED classified

\* The condition of the CallExpression listener (src/index.js:135-139).
isArrayMethodCall(n) ==
    /\ n.callee.type = "MemberExpression"
    /\ n.callee.property.type = "Identifier"
    /\ includes(ARRAY_METHODS, n.callee.property.name)

CallExpression(node) ==
    /\ Invoked(NoLogicInFfi, "CallExpression", node)
    /\ IF isArrayMethodCall(visited[node])
       THEN reportData(NoLogicInFfi, node, "noArrayMethods",
                       [method |-> visited[node].callee.property.name])
       ELSE UNCHANGED reports
    /\ Completes(NoLogicInFfi, node, "returned")
    /\ UNCHANGED classified

-----------------------------------------------------------------------------
(* Rule "no-local-imports".                                                *)

\* Faulty variant of isLocalImport: the test for "../" left out.
isLocalImport_DotSlashOnly(source) ==
    IF ~ToBoolean(source) THEN Return(FALSE)
    ELSE IF source.t # "string" THEN Throw("TypeError")
    ELSE Return(startsWith(source, <<".", "/">>))

\* The closure isLocalImport: a completion, since source.startsWith is a
\* TypeError when source is truthy and no string.
isLocalImport(source) ==
    IF ~ToBoolean(source) THEN Return(FALSE)
    ELSE IF source.t # "string" THEN Throw("TypeError")
    ELSE Return(startsWith(source, <<".", "/">>)
                \/ startsWith(source, <<".", ".", "/">>))

\* if (isLocalImport(source)) context.report({ node, messageId, data: { source } })
reportIfLocal(node, source, messageId) ==
    LET local == isLocalImport(source)
    IN /\ classified' = Append(classified, [source |-> source, result |-> local])
       /\ IF local.kind = "throw"
          THEN /\ UNCHANGED reports
               /\ Completes(NoLocalImports, node, "threw")
          ELSE /\ IF local.value
                  THEN reportData(NoLocalImports, node, messageId,
                                  [source |-> source])
                  ELSE UNCHANGED reports
               /\ Completes(NoLocalImports, node, "returned")

ImportDeclaration(node) ==
    /\ Invoked(NoLocalImports, "ImportDeclaration", node)
    /\ reportIfLocal(node, visited[node].source.value, "noLocalImport")

\* Faulty variant of isLiteralRequire: the test of the callee's name left out.
isLiteralRequire_AnyName(n) ==
    /\ n.callee.type = "Identifier"
    /\ Len(n.arguments) > 0
    /\ n.arguments[1].type = "Literal"

\* The condition of the CallExpression listener (src/index.js:191-196).
isLiteralRequire(n) ==
    /\ n.callee.type = "Identifier"
    /\ n.callee.name = "require"
    /\ Len(n.arguments) > 0
    /\ n.arguments[1].type = "Literal"

NoLocalImports_CallExpression(node) ==
    /\ Invoked(NoLocalImports, "CallExpression", node)
    /\ IF isLiteralRequire(visited[node])
       THEN reportIfLocal(node, visited[node].arguments[1].value, "noLocalRequire")
       ELSE /\ Completes(NoLocalImports, node, "returned")
            /\ UNCHANGED <<reports, classified>>

ImportExpression(node) ==
    /\ Invoked(NoLocalImports, "ImportExpression", node)
    /\ IF visited[node].source.type = "Literal"
       THEN reportIfLocal(node, visited[node].source.value, "noLocalDynamicImport")
       ELSE /\ Completes(NoLocalImports, node, "returned")
            /\ UNCHANGED <<reports, classified>>

-----------------------------------------------------------------------------
(* The syntax nodes the host shows to the listeners. A node carries its    *)
(* type, its parent (of which the listeners read the type alone) and the   *)
(* fields the listeners read.                                              *)

Identifier(name) == [type |-> "Identifier", name |-> name]
Literal(value) == [type |-> "Literal", value |-> value]
MemberExpression(object, property, computed) ==
    [type |-> "MemberExpression", object |-> object, property |-> property,
     computed |-> computed]

Plain(type, p) == [type |-> type, parent |-> p]
FunctionDeclarationNode(id, p) ==
    [type |-> "FunctionDeclaration", id |-> id, parent |-> p]
CallExpressionNode(callee, arguments, p) ==
    [type |-> "CallExpression", callee |-> callee, arguments |-> arguments,
     parent |-> p]
ImportDeclarationNode(source, p) ==
    [type |-> "ImportDeclaration", source |-> source, parent |-> p]
ImportExpressionNode(source, p) ==
    [type |-> "ImportExpression", source |-> source, parent |-> p]

\* Import specifiers: "./a" "../a" "./" "" "." ".." ".../a" "fs" "/a" "@s/p"
\* "node:fs" ".a"
Specifiers ==
    { <<".", "/", "a">>, <<".", ".", "/", "a">>, <<".", "/">>, <<>>, <<".">>,
      <<".", ".">>, <<".", ".", ".", "/", "a">>, <<"f", "s">>, <<"/", "a">>,
      <<"@", "s", "/", "p">>, <<"n", "o", "d", "e", ":", "f", "s">>,
      <<".", "a">> }

\* Values of a Literal that are no string: 42, 0, true, false, null, /re/
\* (a RegExp object), 1n, and a value the parser left unset.
NonStringValues ==
    { JSNumber(42), JSNumber(0), JSBoolean(TRUE), JSBoolean(FALSE), JSNull,
      JSRegExp, JSBigInt(1), JSUndefined }

\* Expressions that are no Literal: someVariable, `./a`, "./" + name.
NonLiterals ==
    { Identifier("someVariable"), [type |-> "TemplateLiteral"],
      [type |-> "BinaryExpression"] }

LoopTypes ==
    {"ForStatement", "ForInStatement", "ForOfStatement", "WhileStatement",
     "DoWhileStatement"}
StatementTypes == {"IfStatement", "SwitchStatement"} \cup LoopTypes

\* function helper() {} and function () {}: the latter is what the grammar
\* allows under export default only; a parser that recovers from errors
\* hands it to the listener elsewhere too.
FunctionIds == { Identifier("helper"), JSNull }

PropertyNames ==
    { "map", "filter", "reduce", "findIndex", "find", "some", "every", "flatMap",
      "method", "Map", "forEach", "findLast" }

\* x.name(), lib.name(): calls through a member access by name.
NamedMemberCalls(p) ==
    { CallExpressionNode(MemberExpression(Identifier("arr"), Identifier(m), FALSE),
                         <<>>, p) : m \in PropertyNames }
    \cup
    { CallExpressionNode(MemberExpression(Identifier("lib"), Identifier(m), FALSE),
                         <<Identifier("x")>>, p) : m \in {"map", "method"} }

\* x[map](), x[k](), x["map"](), x["ma" + "p"](), x.#map()
OtherMemberCalls(p) ==
    { CallExpressionNode(MemberExpression(Identifier("arr"), k, TRUE), <<>>, p) :
        k \in { Identifier("map"), Identifier("k"),
                Literal(JSString(<<"m", "a", "p">>)),
                [type |-> "BinaryExpression"] } }
    \cup
    { CallExpressionNode(
        MemberExpression(Identifier("arr"),
                         [type |-> "PrivateIdentifier", name |-> "map"], FALSE),
        <<>>, p) }

\* require(...) with every kind of argument list, obj.require("./a"),
\* load("./a"), Require("./a")
RequireCalls(p) ==
    { CallExpressionNode(Identifier("require"), <<Literal(JSString(s))>>, p) :
        s \in Specifiers }
    \cup
    { CallExpressionNode(Identifier("require"), <<Literal(v)>>, p) :
        v \in NonStringValues }
    \cup
    { CallExpressionNode(Identifier("require"), <<e>>, p) : e \in NonLiterals }
    \cup
    { CallExpressionNode(Identifier("require"), <<>>, p),
      CallExpressionNode(Identifier("require"),
                         <<Literal(JSString(<<"f", "s">>)),
                           Literal(JSString(<<".", "/", "a">>))>>, p),
      CallExpressionNode(Identifier("require"),
                         <<Identifier("someVariable"),
                           Literal(JSString(<<".", "/", "a">>))>>, p),
      CallExpressionNode(
          MemberExpression(Identifier("obj"), Identifier("require"), FALSE),
          <<Literal(JSString(<<".", "/", "a">>))>>, p),
      CallExpressionNode(Identifier("load"),
                         <<Literal(JSString(<<".", "/", "a">>))>>, p),
      CallExpressionNode(Identifier("Require"),
                         <<Literal(JSString(<<".", "/", "a">>))>>, p) }

ImportDeclarations(p) ==
    { ImportDeclarationNode(Literal(JSString(s)), p) : s \in Specifiers }

ImportExpressions(p) ==
    { ImportExpressionNode(Literal(JSString(s)), p) : s \in Specifiers }
    \cup { ImportExpressionNode(Literal(v), p) : v \in NonStringValues }
    \cup { ImportExpressionNode(e, p) : e \in NonLiterals }

-----------------------------------------------------------------------------
(* The trees the host traverses: the children a node of each type may      *)
(* have. Four families: general trees (Spec), single statements with       *)
(* every shape of call and import (SpecUnit), single statements of every   *)
(* listened-to type (SpecAnyOrder), and stub files (SpecStub).             *)

FunctionDeclarations(p) == { FunctionDeclarationNode(i, p) : i \in FunctionIds }

\* arr.map(), lib.method(x), require("./a"), c ? a : b
TreeExpressions(p) ==
    { Plain("ConditionalExpression", p),
      CallExpressionNode(MemberExpression(Identifier("arr"), Identifier("map"), FALSE),
                         <<>>, p),
      CallExpressionNode(MemberExpression(Identifier("lib"), Identifier("method"), FALSE),
                         <<Identifier("x")>>, p),
      CallExpressionNode(Identifier("require"),
                         <<Literal(JSString(<<".", "/", "a">>))>>, p) }

TreeStatements(p) ==
    { Plain(t, p) : t \in StatementTypes \cup {"ExpressionStatement"} }
        \cup FunctionDeclarations(p)

TreeChildren(type) ==
    LET p == [type |-> type]
    IN CASE type = "Program" ->
              TreeStatements(p)
                \cup { Plain("ExportNamedDeclaration", p),
                       Plain("ExportDefaultDeclaration", p),
                       ImportDeclarationNode(Literal(JSString(<<".", "/", "a">>)), p),
                       ImportDeclarationNode(Literal(JSString(<<"f", "s">>)), p) }
         [] type = "ExportNamedDeclaration" ->
              { FunctionDeclarationNode(Identifier("helper"), p) }
         [] type = "ExportDefaultDeclaration" ->
              FunctionDeclarations(p) \cup TreeExpressions(p)
         [] type = "FunctionDeclaration" -> { Plain("BlockStatement", p) }
         [] type = "BlockStatement" -> TreeStatements(p)
         [] type = "IfStatement" ->
              { Plain("BlockStatement", p), Plain("IfStatement", p),
                Plain("ExpressionStatement", p) } \cup TreeExpressions(p)
         [] type \in LoopTypes ->
              { Plain("BlockStatement", p), Plain("ExpressionStatement", p) }
         [] type = "SwitchStatement" -> TreeExpressions(p)
         [] type = "ExpressionStatement" ->
              TreeExpressions(p)
                \cup { ImportExpressionNode(
                           Literal(JSString(<<".", ".", "/", "a">>)), p),
                       ImportExpressionNode(Identifier("someVariable"), p) }
         [] type = "ConditionalExpression" -> TreeExpressions(p)
         [] OTHER -> {}

UnitChildren(type) ==
    LET p == [type |-> type]
    IN CASE type = "Program" ->
              { Plain(t, p) : t \in StatementTypes \cup {"ExpressionStatement"} }
                \cup FunctionDeclarations(p) \cup ImportDeclarations(p)
         [] type = "ExpressionStatement" ->
              { Plain("ConditionalExpression", p) }
                \cup NamedMemberCalls(p) \cup OtherMemberCalls(p)
                \cup RequireCalls(p) \cup ImportExpressions(p)
         [] OTHER -> {}

\* Files of single statements, one shape for each listener: the nodes the
\* host of SpecAnyOrder collects. The function helper occurs exported and not,
\* the if statement under Program and under another if.
AnyChildren(type) ==
    LET p == [type |-> type]
    IN CASE type = "Program" ->
              { Plain(t, p) : t \in StatementTypes \cup {"ExpressionStatement",
                                                        "ExportNamedDeclaration"} }
                \cup { FunctionDeclarationNode(Identifier("helper"), p),
                       ImportDeclarationNode(Literal(JSString(<<".", "/", "a">>)), p) }
         [] type = "ExportNamedDeclaration" ->
              { FunctionDeclarationNode(Identifier("helper"), p) }
         [] type = "IfStatement" -> { Plain("IfStatement", p) }
         [] type = "ExpressionStatement" ->
              { Plain("ConditionalExpression", p),
                CallExpressionNode(
                    MemberExpression(Identifier("arr"), Identifier("map"), FALSE),
                    <<>>, p),
                CallExpressionNode(Identifier("require"),
                                   <<Literal(JSString(<<".", "/", "a">>))>>, p),
                ImportExpressionNode(Literal(JSString(<<".", ".", "/", "a">>)), p) }
         [] OTHER -> {}

\* The spec's classification of a specifier (its section 3): Local when the
\* text starts with "./" or "../", read off the characters.
IsRelative(cs) ==
    \/ Len(cs) >= 2 /\ cs[1] = "." /\ cs[2] = "/"
    \/ Len(cs) >= 3 /\ cs[1] = "." /\ cs[2] = "." /\ cs[3] = "/"

\* (x) => ..., async () => ...: an arrow function has id null.
ArrowFunctions(p) ==
    { [type |-> "ArrowFunctionExpression", id |-> JSNull, async |-> a,
       parent |-> p] : a \in BOOLEAN }

\* lib.method(x) with a property name that is no array method, TextAlignment.Left,
\* field.getText() || ""
StubExpressions(p) ==
    { CallExpressionNode(MemberExpression(Identifier("lib"), Identifier(m), FALSE),
                         <<Identifier("x")>>, p) :
        m \in {"method", "Map", "forEach", "findLast"} }
    \cup { Plain("MemberExpression", p), Plain("LogicalExpression", p) }

StubChildren(type) ==
    LET p == [type |-> type]
    IN CASE type = "Program" ->
              { ImportDeclarationNode(Literal(JSString(s)), p) :
                  s \in {x \in Specifiers : ~IsRelative(x)} }
                \cup { Plain("ExportNamedDeclaration", p) }
         [] type = "ExportNamedDeclaration" -> { Plain("VariableDeclaration", p) }
         [] type = "VariableDeclaration" -> { Plain("VariableDeclarator", p) }
         [] type = "VariableDeclarator" ->
              ArrowFunctions(p) \cup StubExpressions(p)
         [] type = "ArrowFunctionExpression" ->
              ArrowFunctions(p) \cup StubExpressions(p)
         [] type = "LogicalExpression" ->
              StubExpressions(p) \cup { Plain("Literal", p) }
         [] type = "CallExpression" -> { Plain("MemberExpression", p) }
         [] OTHER -> {}

\* function () {} and function helper() {} as expressions.
FunctionExpressions(p) ==
    { [type |-> "FunctionExpression", id |-> i, parent |-> p] : i \in FunctionIds }

\* What a file may hold besides stubs: function expressions and arrow
\* functions as a statement, as export default, as the initialiser of a
\* declarator and as the argument of a call, and function declarations,
\* exported and not, at the top and in a function's body.
FunctionChildren(type) ==
    LET p == [type |-> type]
    IN CASE type = "Program" ->
              { FunctionDeclarationNode(Identifier("helper"), p),
                Plain("ExpressionStatement", p),
                Plain("ExportDefaultDeclaration", p) }
         [] type = "ExportNamedDeclaration" ->
              { FunctionDeclarationNode(Identifier("helper"), p) }
         [] type = "ExportDefaultDeclaration" ->
              { FunctionDeclarationNode(JSNull, p) } \cup ArrowFunctions(p)
                \cup FunctionExpressions(p)
         [] type = "ExpressionStatement" ->
              ArrowFunctions(p) \cup FunctionExpressions(p)
         [] type = "VariableDeclarator" -> FunctionExpressions(p)
         [] type = "CallExpression" ->
              ArrowFunctions(p) \cup FunctionExpressions(p)
         [] type \in {"FunctionExpression", "FunctionDeclaration"} ->
              { Plain("BlockStatement", p) }
         [] type = "BlockStatement" ->
              { FunctionDeclarationNode(Identifier("helper"), p) }
         [] OTHER -> {}

-----------------------------------------------------------------------------
(* The host: it enters the nodes of one tree in tree order and, on         *)
(* entering a node, invokes the listener of every enabled rule that        *)
(* registered the node's type.                                             *)

Top == ancestors[Len(ancestors)]

Enter(n, maxDepth, maxVisited) ==
    /\ enabled # {}
    /\ ~thrown
    /\ cur = 0
    /\ Len(ancestors) < maxDepth
    /\ ancestors' = Append(ancestors, n.type)
    /\ IF listeners(n.type) # {}
       THEN /\ Len(visited) < maxVisited
            /\ visited' = Append(visited, n)
            /\ pending' = listeners(n.type) \cap enabled
            /\ cur' = IF listeners(n.type) \cap enabled = {}
                      THEN 0 ELSE Len(visited) + 1
       ELSE UNCHANGED <<visited, pending, cur>>
    /\ UNCHANGED <<plugin, enabled, calls, classified, reports, thrown>>

EnterNode ==
    /\ ancestors # <<>>
    /\ \E n \in TreeChildren(Top) : Enter(n, MaxDepth, MaxVisited)

EnterUnit ==
    /\ ancestors # <<>>
    /\ \E n \in UnitChildren(Top) : Enter(n, MaxDepth, MaxUnitVisited)

LeaveNode ==
    /\ enabled # {}
    /\ ~thrown
    /\ cur = 0
    /\ ancestors # <<>>
    /\ ancestors' = SubSeq(ancestors, 1, Len(ancestors) - 1)
    /\ UNCHANGED <<plugin, enabled, visited, cur, pending, calls, classified,
                   reports, thrown>>

\* The listeners of create(context) of "no-logic-in-ffi", each on the node the
\* host dispatches.
NoLogicInFfiListener ==
    \/ \E node \in 1..Len(visited) : FunctionDeclaration(node)
    \/ \E node \in 1..Len(visited) : IfStatement(node)
    \/ \E node \in 1..Len(visited) : ForStatement(node)
    \/ \E node \in 1..Len(visited) : ForInStatement(node)
    \/ \E node \in 1..Len(visited) : ForOfStatement(node)
    \/ \E node \in 1..Len(visited) : WhileStatement(node)
    \/ \E node \in 1..Len(visited) : DoWhileStatement(node)
    \/ \E node \in 1..Len(visited) : ConditionalExpression(node)
    \/ \E node \in 1..Len(visited) : SwitchStatement(node)
    \/ \E node \in 1..Len(visited) : CallExpression(node)

\* The listeners of create(context) of "no-local-imports".
NoLocalImportsListener ==
    \/ \E node \in 1..Len(visited) : ImportDeclaration(node)
    \/ \E node \in 1..Len(visited) : NoLocalImports_CallExpression(node)
    \/ \E node \in 1..Len(visited) : ImportExpression(node)

\* The host imports the module and switches on the rules its configuration
\* names among those the module exports. An import that throws ends the run:
\* there is no rule to switch on and no file is traversed.
Load ==
    /\ plugin.status = "unloaded"
    /\ plugin' = [plugin EXCEPT !.status = Evaluate(plugin.file)]
    /\ IF rules' = {} THEN enabled' = {} ELSE enabled' \in SUBSET rules' \ {{}}
    /\ UNCHANGED <<ancestors, visited, cur, pending, calls, classified, reports,
                   thrown>>

Init ==
    /\ plugin \in [file : ModuleTexts, status : {"unloaded"}]
    /\ enabled = {}
    /\ ancestors = <<"Program">>
    /\ visited = <<>>
    /\ cur = 0
    /\ pending = {}
    /\ calls = <<>>
    /\ classified = <<>>
    /\ reports = <<>>
    /\ thrown = FALSE

Next ==
    Load \/ EnterNode \/ LeaveNode \/ NoLogicInFfiListener
      \/ NoLocalImportsListener

Spec == Init /\ [][Next]_vars

NextUnit ==
    Load \/ EnterUnit \/ LeaveNode \/ NoLogicInFfiListener \/ NoLocalImportsListener

SpecUnit == Init /\ [][NextUnit]_vars

EnterStub ==
    /\ ancestors # <<>>
    /\ \E n \in StubChildren(Top) \cup FunctionChildren(Top) :
           Enter(n, MaxStubDepth, MaxVisited)

NextStub ==
    \/ Load
    \/ EnterStub
    \/ LeaveNode
    \/ \E node \in 1..Len(visited) : FunctionDeclaration(node)
    \/ \E node \in 1..Len(visited) : CallExpression(node)
    \/ \E node \in 1..Len(visited) : ImportDeclaration(node)
    \/ \E node \in 1..Len(visited) : NoLocalImports_CallExpression(node)

SpecStub == Init /\ [][NextStub]_vars

\* Beyond its contract, a host may collect the nodes of a file and dispatch
\* them once the traversal is over, in any order and any number of times, and
\* may go on to a next file, for which it calls create(context) anew: the
\* listeners it gets keep nothing from the last file.
Dispatch(node) ==
    /\ ~thrown
    /\ cur = 0
    /\ ancestors = <<>>
    /\ Len(calls) < MaxCalls
    /\ listeners(visited[node].type) \cap enabled # {}
    /\ cur' = node
    /\ pending' = listeners(visited[node].type) \cap enabled
    /\ UNCHANGED <<plugin, enabled, ancestors, visited, calls, classified,
                   reports, thrown>>

create ==
    /\ enabled # {}
    /\ ~thrown
    /\ ancestors = <<>>
    /\ ancestors' = <<"Program">>
    /\ UNCHANGED <<plugin, enabled, visited, cur, pending, calls, classified,
                   reports, thrown>>

EnterDeferred(n) ==
    /\ enabled # {}
    /\ ~thrown
    /\ cur = 0
    /\ Len(ancestors) < MaxAnyDepth
    /\ ancestors' = Append(ancestors, n.type)
    /\ IF listeners(n.type) # {}
       THEN /\ Len(visited) < MaxAnyVisited
            /\ visited' = Append(visited, n)
       ELSE UNCHANGED visited
    /\ UNCHANGED <<plugin, enabled, cur, pending, calls, classified, reports,
                   thrown>>

EnterAny ==
    /\ ancestors # <<>>
    /\ \E n \in AnyChildren(Top) : EnterDeferred(n)

NextAnyOrder ==
    \/ Load
    \/ EnterAny
    \/ LeaveNode
    \/ NoLogicInFfiListener
    \/ NoLocalImportsListener
    \/ \E node \in 1..Len(visited) : Dispatch(node)
    \/ create

SpecAnyOrder == Init /\ [][NextAnyOrder]_vars

-----------------------------------------------------------------------------
(* Properties.                                                             *)

ReportsOn(node) == SelectSeq(reports, LAMBDA d : d.node = node)
ReportsBy(rule, node) ==
    SelectSeq(reports, LAMBDA d : d.ruleId = rule /\ d.node = node)
CallsOf(rule, node) ==
    SelectSeq(calls, LAMBDA c : c.rule = rule /\ c.node = node)
IsStringLiteral(e) == e.type = "Literal" /\ e.value.t = "string"

\* C1: a FunctionDeclaration the no-logic-in-ffi listener was invoked on has
\* exactly one diagnostic, noHelperFunctions with data.name its identifier's
\* name or "anonymous", when the type of its immediate parent is neither
\* ExportNamedDeclaration nor ExportDefaultDeclaration, and no diagnostic
\* when it is one of the two.
C1_HelperFunctionReported ==
    \A i \in 1..Len(visited) :
        (/\ visited[i].type = "FunctionDeclaration"
         /\ Len(CallsOf(NoLogicInFfi, i)) = 1)
        => ReportsOn(i) =
             IF visited[i].parent.type
                  \in {"ExportNamedDeclaration", "ExportDefaultDeclaration"}
             THEN <<>>
             ELSE << [ruleId |-> NoLogicInFfi, node |-> i,
                      messageId |-> "noHelperFunctions",
                      data |-> [name |-> IF visited[i].id = JSNull
                                         THEN "anonymous"
                                         ELSE visited[i].id.name]] >>

\* An exported function passed unreported and the function declared in its
\* body was reported.
C1_Witness ==
    /\ ancestors = <<"Program", "ExportNamedDeclaration", "FunctionDeclaration",
                     "BlockStatement", "FunctionDeclaration">>
    /\ cur = 0
    /\ Len(visited) = 2
    /\ visited[1].parent.type = "ExportNamedDeclaration"
    /\ visited[2].parent.type = "BlockStatement"
    /\ Len(CallsOf(NoLogicInFfi, 1)) = 1
    /\ ReportsOn(1) = <<>>
    /\ Len(ReportsOn(2)) = 1
    /\ reports[1].data.name = "helper"

C2_Kinds(key) ==
    CASE key = "noIfStatements" -> {"IfStatement"}
      [] key = "noLoops" ->
           {"ForStatement", "ForInStatement", "ForOfStatement", "WhileStatement",
            "DoWhileStatement"}
      [] key = "noTernary" -> {"ConditionalExpression"}
      [] key = "noSwitch" -> {"SwitchStatement"}

\* C2: once every entered node has been dispatched, the diagnostics with key
\* noIfStatements, noLoops, noTernary, noSwitch are as many as the if, loop
\* (five kinds), conditional and switch nodes entered, one on each node.
C2_OnePerLogicNode ==
    (cur = 0 /\ NoLogicInFfi \in enabled) =>
        \A key \in {"noIfStatements", "noLoops", "noTernary", "noSwitch"} :
            /\ Len(SelectSeq(reports, LAMBDA d : d.messageId = key))
                 = Len(SelectSeq(visited, LAMBDA n : n.type \in C2_Kinds(key)))
            /\ \A i \in 1..Len(visited) :
                   visited[i].type \in C2_Kinds(key)
                   => ReportsOn(i) = << [ruleId |-> NoLogicInFfi, node |-> i,
                                         messageId |-> key] >>

\* A finished traversal of if (a) {} else if (b) {} with its two diagnostics.
C2_Witness ==
    /\ ancestors = <<>>
    /\ Len(visited) = 2
    /\ visited[1].type = "IfStatement"
    /\ visited[2].type = "IfStatement"
    /\ visited[2].parent.type = "IfStatement"
    /\ Len(reports) = 2
    /\ reports[2].messageId = "noIfStatements"

C3_ArrayMethodNames ==
    {"map", "filter", "reduce", "findIndex", "find", "some", "every", "flatMap"}

IsNamedMemberCall(n) ==
    /\ n.type = "CallExpression"
    /\ n.callee.type = "MemberExpression"
    /\ ~n.callee.computed
    /\ n.callee.property.type = "Identifier"

\* C3: a call <expr>.<name>(...) the no-logic-in-ffi listener was invoked on
\* has exactly one diagnostic of that rule, noArrayMethods with data.method
\* the name, when the name is one of the eight array methods, and none for
\* any other name, whatever the receiver.
C3_ArrayMethodByName ==
    \A i \in 1..Len(visited) :
        (IsNamedMemberCall(visited[i]) /\ Len(CallsOf(NoLogicInFfi, i)) = 1)
        => ReportsBy(NoLogicInFfi, i) =
             IF visited[i].callee.property.name \in C3_ArrayMethodNames
             THEN << [ruleId |-> NoLogicInFfi, node |-> i,
                      messageId |-> "noArrayMethods",
                      data |-> [method |-> visited[i].callee.property.name]] >>
             ELSE <<>>

\* lib.map(x), a map method of something that is no array, was reported.
C3_Witness ==
    \E i \in 1..Len(visited) :
        /\ IsNamedMemberCall(visited[i])
        /\ visited[i].callee.object.name = "lib"
        /\ Len(ReportsBy(NoLogicInFfi, i)) = 1
        /\ reports[1].data.method = "map"

\* C4: isLocalImport is total: applied to any value it returns true when the
\* value is a string starting with "./" or "../" and false for every other.
C4_TotalClassification ==
    \A k \in 1..Len(classified) :
        classified[k].result =
            Return(/\ classified[k].source.t = "string"
                   /\ IsRelative(classified[k].source.chars))

C5_Mechanism(n) ==
    CASE n.type = "ImportDeclaration" -> "noLocalImport"
      [] n.type = "CallExpression" -> "noLocalRequire"
      [] n.type = "ImportExpression" -> "noLocalDynamicImport"
      [] OTHER -> "none"

\* The string-literal specifier of an import, a require("<lit>") or an
\* import("<lit>"), as a one-element set; empty for every other node.
C5_Specifier(n) ==
    CASE n.type = "ImportDeclaration" -> {n.source}
      [] n.type = "ImportExpression" ->
           IF IsStringLiteral(n.source) THEN {n.source} ELSE {}
      [] n.type = "CallExpression" ->
           IF /\ n.callee.type = "Identifier"
              /\ n.callee.name = "require"
              /\ Len(n.arguments) > 0
              /\ IsStringLiteral(n.arguments[1])
           THEN {n.arguments[1]} ELSE {}
      [] OTHER -> {}

\* C5: an import, require or dynamic import of a string literal the
\* no-local-imports listener was invoked on has exactly one diagnostic of that
\* rule when the literal starts with "./" or "../", with the key of its own
\* mechanism and data.source the literal's text, and none otherwise; no key
\* is reported on a node of another mechanism.
C5_OneKeyPerMechanism ==
    /\ \A i \in 1..Len(visited) : \A lit \in C5_Specifier(visited[i]) :
           Len(CallsOf(NoLocalImports, i)) = 1
           => ReportsBy(NoLocalImports, i) =
                IF IsRelative(lit.value.chars)
                THEN << [ruleId |-> NoLocalImports, node |-> i,
                         messageId |-> C5_Mechanism(visited[i]),
                         data |-> [source |-> JSString(lit.value.chars)]] >>
                ELSE <<>>
    /\ \A k \in 1..Len(reports) :
           reports[k].ruleId = NoLocalImports
           => reports[k].messageId = C5_Mechanism(visited[reports[k].node])

\* import("../a") was reported as a dynamic import of "../a".
C5_Witness ==
    \E i \in 1..Len(visited) :
        /\ visited[i].type = "ImportExpression"
        /\ ReportsBy(NoLocalImports, i) # <<>>
        /\ reports[1].messageId = "noLocalDynamicImport"
        /\ reports[1].data.source = JSString(<<".", ".", "/", "a">>)

\* C6: a call that is not require with a string literal as first argument,
\* and a dynamic import whose source is no string literal, get no diagnostic
\* of no-local-imports.
C6_OnlyLiteralRequire ==
    \A i \in 1..Len(visited) :
        (/\ visited[i].type \in {"CallExpression", "ImportExpression"}
         /\ C5_Specifier(visited[i]) = {}
         /\ Len(CallsOf(NoLocalImports, i)) = 1)
        => ReportsBy(NoLocalImports, i) = <<>>

\* obj.require("./a") went through the listener unreported.
C6_Witness ==
    \E i \in 1..Len(visited) :
        /\ visited[i].type = "CallExpression"
        /\ IsNamedMemberCall(visited[i])
        /\ visited[i].callee.property.name = "require"
        /\ Len(visited[i].arguments) > 0
        /\ IsStringLiteral(visited[i].arguments[1])
        /\ IsRelative(visited[i].arguments[1].value.chars)
        /\ Len(CallsOf(NoLocalImports, i)) = 1
        /\ reports = <<>>

\* C7: no listener throws: every invocation returns, a literal that is no
\* string passing like an absent specifier.
C7_NoListenerThrows ==
    /\ ~thrown
    /\ \A k \in 1..Len(calls) : calls[k].how = "returned"

\* C8: a file of stubs - imports of external specifiers, exported constants
\* initialised with arrow functions, calls of methods that are no array
\* methods, member accesses, logical-or defaults - gets no diagnostic from
\* either rule and no listener throws; and in a file that holds arrow
\* functions, function expressions and function declarations beside the
\* stubs, under any parent, a diagnostic is a noHelperFunctions of
\* no-logic-in-ffi on a FunctionDeclaration node, never on an arrow function
\* or a function expression.
C8_StubsUnreported ==
    /\ ~thrown
    /\ (\A i \in 1..Len(visited) : visited[i].type # "FunctionDeclaration")
         => reports = <<>>
    /\ \A k \in 1..Len(reports) :
           /\ reports[k].ruleId = NoLogicInFfi
           /\ reports[k].messageId = "noHelperFunctions"
           /\ visited[reports[k].node].type = "FunctionDeclaration"
           /\ visited[reports[k].node].parent.type
                 \notin {"ExportNamedDeclaration", "ExportDefaultDeclaration"}

\* import lib from "fs";
\* export const foo = (x) => () => lib.method(function helper() {});
\* traversed with both rules on down to the function expression, which is
\* the argument of a call: no diagnostic.
C8_Witness ==
    /\ enabled = rules
    /\ ancestors = <<"Program", "ExportNamedDeclaration", "VariableDeclaration",
                     "VariableDeclarator", "ArrowFunctionExpression",
                     "ArrowFunctionExpression", "CallExpression",
                     "FunctionExpression">>
    /\ Len(visited) = 2
    /\ visited[1].type = "ImportDeclaration"
    /\ visited[2].callee.property.name = "method"
    /\ Len(calls) = 3
    /\ reports = <<>>

\* What a rule is to report on a node, as a function of what the listener is
\* given - the node, and of its parent the type only for a FunctionDeclaration:
\* no diagnostic or one, here without the node it is reported on.
C9_Expected(rule, n) ==
    IF rule = NoLogicInFfi
    THEN CASE n.type = "FunctionDeclaration" ->
                IF n.parent.type
                     \in {"ExportNamedDeclaration", "ExportDefaultDeclaration"}
                THEN {}
                ELSE { [messageId |-> "noHelperFunctions",
                        data |-> [name |-> IF n.id = JSNull THEN "anonymous"
                                           ELSE n.id.name]] }
           [] n.type = "IfStatement" -> { [messageId |-> "noIfStatements"] }
           [] n.type \in C2_Kinds("noLoops") -> { [messageId |-> "noLoops"] }
           [] n.type = "ConditionalExpression" -> { [messageId |-> "noTernary"] }
           [] n.type = "SwitchStatement" -> { [messageId |-> "noSwitch"] }
           [] n.type = "CallExpression" ->
                IF /\ IsNamedMemberCall(n)
                   /\ n.callee.property.name \in C3_ArrayMethodNames
                THEN { [messageId |-> "noArrayMethods",
                        data |-> [method |-> n.callee.property.name]] }
                ELSE {}
           [] OTHER -> {}
    ELSE { [messageId |-> C5_Mechanism(n),
            data |-> [source |-> JSString(lit.value.chars)]] :
             lit \in {l \in C5_Specifier(n) : IsRelative(l.value.chars)} }

\* C9: the diagnostics collected are a function of the invocations made, in
\* whatever order and however often, on one file or on several, with one
\* rule or both enabled: on each node each rule has reported, once per
\* invocation of its listener on the node, the diagnostic that the node alone
\* determines (for a FunctionDeclaration, with the type of its parent), or
\* nothing when the node determines none.
C9_Stateless ==
    \A r \in {NoLogicInFfi, NoLocalImports} : \A i \in 1..Len(visited) :
        /\ \A k \in 1..Len(ReportsBy(r, i)) :
               ReportsBy(r, i)[k] \in
                 { [ruleId |-> r, node |-> i] @@ e : e \in C9_Expected(r, visited[i]) }
        /\ Len(ReportsBy(r, i)) =
             Len(CallsOf(r, i)) * Cardinality(C9_Expected(r, visited[i]))

\* A while and an if dispatched out of tree order, the if first and then once
\* more after the while: the if has its two diagnostics, the while its one.
C9_Witness ==
    /\ Len(visited) >= 2
    /\ visited[1].type = "WhileStatement"
    /\ visited[2].type = "IfStatement"
    /\ Len(calls) = 3
    /\ calls[1].node = 2
    /\ calls[2].node = 1
    /\ calls[3].node = 2
    /\ Len(ReportsOn(2)) = 2
    /\ Len(ReportsOn(1)) = 1
    /\ reports[2].messageId = "noLoops"

\* C10: a call through a computed member access x[k](...) gets no
\* noArrayMethods diagnostic, whatever the key expression.
C10_ComputedNeverReported ==
    \A i \in 1..Len(visited) :
        (/\ visited[i].type = "CallExpression"
         /\ visited[i].callee.type = "MemberExpression"
         /\ visited[i].callee.computed)
        => ReportsBy(NoLogicInFfi, i) = <<>>

====
